---- MODULE Spec2Model ----
(***************************************************************************)
(* A model of the dashboard: the kanban event board (KanbanBoard), the     *)
(* theme flag shared by Header, App and KanbanBoard, and the document      *)
(* store behind them.                                                      *)
(*                                                                         *)
(* A JavaScript Date is the record [day, tod]: the local calendar day as   *)
(* the number of days since 1970-01-01 and the milliseconds elapsed within *)
(* that day.  Local time has no daylight-saving shifts in the model.       *)
(* A JavaScript string is the sequence of its one-character strings, so    *)
(* that comparison and truthiness are computed and not assumed.            *)
(***************************************************************************)
EXTENDS Integers, Sequences, FiniteSets, TLC

VARIABLES
    today,             \* KanbanBoard: const today = new Date()
    store,             \* the "events" collection, newest document first
    nextId,            \* the next document id the store assigns
    events,            \* KanbanBoard: useState<Event[]>
    isModalOpen,       \* KanbanBoard: useState(false)
    selectedDate,      \* KanbanBoard: useState<Date | null>
    newEventTitle,     \* KanbanBoard: useState('')
    newEventTime,      \* KanbanBoard: useState('')
    modalWeekOffset,   \* KanbanBoard: useState(0)
    boardWindowStart,  \* KanbanBoard: useState(0)
    inflight,          \* handleAddEvent calls suspended at await addDoc(...)
    issued,            \* history: number of addDoc calls made so far
    deleted,           \* history: number of deleteDoc calls made so far
    sameSession,       \* history: per suspended call, whether the dialog it
                       \* was submitted from has not been closed since
    sessionIssued,     \* history: addDoc calls made since the dialog opened
    sortIn,            \* the argument of a sortEventsByTime call
    sortOut,           \* its result
    sortCalled,        \* whether the call has returned
    lsTheme,           \* localStorage.getItem('theme')
    attrTheme,         \* document.documentElement.getAttribute('data-theme')
    headerTheme,       \* Header: useState(localStorage.getItem('theme') || 'light')
    appTheme,          \* App: useState(localStorage.getItem('theme') || 'light')
    boardTheme,        \* KanbanBoard: useState(localStorage.getItem('theme') || 'light')
    isSidebarOpen,     \* App: useState(false)
    mounted,           \* whether the effects of the first commit have run
    headerEffectPending,  \* Header's [theme] effect is scheduled
    observersPending,  \* MutationObserver callbacks queued, by component
    toggles,           \* history: the toggle buttons pressed, in order
    attrAtToggle,      \* history: data-theme when the last one was pressed
    todoStore,         \* the "todos" collection, newest document first
    todoNextId,        \* the next document id the store assigns
    todos,             \* TodoList: useState<Todo[]>
    inputValue,        \* TodoList: useState('')
    todoInflight,      \* addTodo calls suspended at await addDoc(...)
    todoCalls,         \* history: addDoc, updateDoc and deleteDoc calls so far
    toggleLog          \* history: the updates written since the last snapshot

boardVars == <<today, store, nextId, events, isModalOpen, selectedDate,
               newEventTitle, newEventTime, modalWeekOffset, boardWindowStart,
               inflight, issued, deleted, sameSession, sessionIssued>>
sortVars == <<sortIn, sortOut, sortCalled>>
themeVars == <<lsTheme, attrTheme, headerTheme, appTheme, boardTheme,
               isSidebarOpen, mounted, headerEffectPending, observersPending,
               toggles, attrAtToggle>>
todoVars == <<todoStore, todoNextId, todos, inputValue, todoInflight,
              todoCalls, toggleLog>>
vars == <<boardVars, sortVars, themeVars, todoVars>>

----------------------------------------------------------------------------
(* Bounds of the model.                                                    *)

\* Documents in the store of SpecDays.
MaxEvents == 3
\* Days after 2024-06-12 a session of SpecWeek can start on.
MaxDayShift == 6
\* Length of the argument of sortEventsByTime (SpecSort).
MaxSortLen == 4
\* |modalWeekOffset| reachable by the dialog's week navigation.
MaxWeekOffset == 1
\* addDoc calls in one behaviour.
MaxCreates == 1
\* Theme toggle clicks in one behaviour.
MaxToggles == 3
\* deleteDoc calls in one behaviour.
MaxDeletes == 2
\* deleteDoc calls in one behaviour of SpecShrink.
MaxShrinkDeletes == 7
\* addDoc, updateDoc and deleteDoc calls of TodoList in one behaviour.
MaxTaskCalls == 3

(* Program constants.                                                      *)
RangeLength == 15
RangeBack == 7
BoardColumns == 7
WeekLength == 7
WeekStartsOn == 0

----------------------------------------------------------------------------
(* Dates.                                                                  *)

SecPerDay == 24 * 60 * 60

\* new Date(y, m - 1, d) at local midnight: the day number of a civil date.
DaysFromCivil(y, m, d) ==
    LET y2 == IF m <= 2 THEN y - 1 ELSE y
        era == y2 \div 400
        yoe == y2 - era * 400
        mp == (m + 9) % 12
        doy == (153 * mp + 2) \div 5 + d - 1
        doe == yoe * 365 + yoe \div 4 - yoe \div 100 + doy
    IN  era * 146097 + doe - 719468

Null == [day |-> 0 - 1, tod |-> 0]

\* date-fns addDays: the same time of day, amount days later.
addDays(date, amount) == [day |-> date.day + amount, tod |-> date.tod]

\* date-fns startOfDay.
startOfDay(date) == [day |-> date.day, tod |-> 0]

\* date-fns isSameDay: startOfDay(a) equals startOfDay(b).
isSameDay(a, b) == startOfDay(a) = startOfDay(b)

\* Date.prototype.getDay: 0 is Sunday; 1970-01-01 was a Thursday.
getDay(date) == (date.day + 4) % 7

\* date-fns startOfWeek(date, { weekStartsOn }).
startOfWeek(date, weekStartsOn) ==
    LET diff == (getDay(date) + 7 - weekStartsOn) % 7
    IN  [day |-> date.day - diff, tod |-> 0]

\* Firestore Timestamp.fromDate: whole seconds and the nanoseconds left.
TimestampFromDate(date) ==
    [seconds |-> date.day * SecPerDay + date.tod \div 1000,
     nanoseconds |-> (date.tod % 1000) * 1000000]

\* toDate: a Timestamp becomes the Date of its millisecond.
toDate(val) ==
    [day |-> val.seconds \div SecPerDay,
     tod |-> (val.seconds % SecPerDay) * 1000 + val.nanoseconds \div 1000000]

----------------------------------------------------------------------------
(* Strings.                                                                *)

EmptyStr == <<>>
Time0000 == <<"0", "0", ":", "0", "0">>
Time0900 == <<"0", "9", ":", "0", "0">>
Time1130 == <<"1", "1", ":", "3", "0">>
Time1400 == <<"1", "4", ":", "0", "0">>
TitleGym == <<"G", "y", "m">>
TitleBlank == <<" ">>

\* JavaScript truthiness of a string: every string but '' is truthy.
Truthy(s) == s # EmptyStr

\* The collation rank of a character: punctuation sorts before digits,
\* digits in numeric order.
CollationRank(c) ==
    CASE c = ":" -> 0
      [] c = "0" -> 1 [] c = "1" -> 2 [] c = "2" -> 3 [] c = "3" -> 4
      [] c = "4" -> 5 [] c = "5" -> 6 [] c = "6" -> 7 [] c = "7" -> 8
      [] c = "8" -> 9 [] c = "9" -> 10

\* String.prototype.localeCompare: negative, zero or positive.
RECURSIVE localeCompare(_, _)
localeCompare(a, b) ==
    IF a = <<>> /\ b = <<>> THEN 0
    ELSE IF a = <<>> THEN 0 - 1
    ELSE IF b = <<>> THEN 1
    ELSE IF CollationRank(Head(a)) < CollationRank(Head(b)) THEN 0 - 1
    ELSE IF CollationRank(Head(a)) > CollationRank(Head(b)) THEN 1
    ELSE localeCompare(Tail(a), Tail(b))

----------------------------------------------------------------------------
(* sortEventsByTime.                                                       *)

\* The comparator without the '00:00' default.
CompareNoDefault(a, b) == localeCompare(a.time, b.time)

\* The comparator handed to Array.prototype.sort.
CompareByTime(a, b) ==
    LET timeA == IF Truthy(a.time) THEN a.time ELSE Time0000
        timeB == IF Truthy(b.time) THEN b.time ELSE Time0000
    IN  localeCompare(timeA, timeB)

\* One step of a sort that is not stable: e goes before its equals.
RECURSIVE InsertBeforeEqual(_, _)
InsertBeforeEqual(e, sorted) ==
    IF sorted = <<>> THEN <<e>>
    ELSE IF CompareByTime(Head(sorted), e) < 0
         THEN <<Head(sorted)>> \o InsertBeforeEqual(e, Tail(sorted))
         ELSE <<e>> \o sorted

\* One step of a stable sort: e goes behind every element that does not
\* compare greater than it.
RECURSIVE InsertStable(_, _)
InsertStable(e, sorted) ==
    IF sorted = <<>> THEN <<e>>
    ELSE IF CompareByTime(Head(sorted), e) <= 0
         THEN <<Head(sorted)>> \o InsertStable(e, Tail(sorted))
         ELSE <<e>> \o sorted

\* Array.prototype.sort is stable; it sorts the copy [...events].
RECURSIVE SortStable(_)
SortStable(arr) ==
    IF arr = <<>> THEN <<>>
    ELSE InsertStable(arr[Len(arr)], SortStable(SubSeq(arr, 1, Len(arr) - 1)))

sortEventsByTime(evs) == SortStable(evs)

----------------------------------------------------------------------------
(* The values KanbanBoard derives on every render.                         *)

\* A range of 17 days, from i - 8.
boardActiveRangeWide(t) ==
    [i \in 1..(RangeLength + 2) |-> addDays(t, (i - 1) - (RangeBack + 1))]

\* Array.from({ length: 15 }, (_, i) => addDays(today, i - 7))
boardActiveRangeOf(t) ==
    [i \in 1..RangeLength |-> addDays(t, (i - 1) - RangeBack)]

\* The filter predicate without its second disjunct.
DayIsActiveEventsOnly(day, evs, t) ==
    \E k \in 1..Len(evs) : isSameDay(evs[k].start, day)

\* The filter predicate of activeDays.
DayIsActive(day, evs, t) ==
    \/ \E k \in 1..Len(evs) : isSameDay(evs[k].start, day)
    \/ isSameDay(day, t)

activeDaysOf(evs, t) ==
    SelectSeq(boardActiveRangeOf(t), LAMBDA day : DayIsActive(day, evs, t))

\* Array.prototype.slice(start, end) for start >= 0.
Slice(arr, start, end) ==
    LET hi == IF end < Len(arr) THEN end ELSE Len(arr)
    IN  IF start >= hi THEN <<>> ELSE SubSeq(arr, start + 1, hi)

boardActiveRange == boardActiveRangeOf(today)
activeDays == activeDaysOf(events, today)
visibleBoardDays ==
    Slice(activeDays, boardWindowStart, boardWindowStart + BoardColumns)

\* The week starting on Monday.
modalStartDateMonday(t, offset) ==
    addDays(startOfWeek(t, 1), offset * 7)

\* addDays(startOfWeek(today, { weekStartsOn: 0 }), modalWeekOffset * 7)
modalStartDateOf(t, offset) ==
    addDays(startOfWeek(t, WeekStartsOn), offset * 7)

modalWeekDaysOf(t, offset) ==
    [i \in 1..WeekLength |-> addDays(modalStartDateOf(t, offset), i - 1)]

modalStartDate == modalStartDateOf(today, modalWeekOffset)
modalWeekDays == modalWeekDaysOf(today, modalWeekOffset)

\* The filter comparing instants, not days.
dayEventsExact(day) == SelectSeq(events, LAMBDA e : e.start = day)

\* events.filter(e => isSameDay(e.start, day))
dayEvents(day) == SelectSeq(events, LAMBDA e : isSameDay(e.start, day))
sortedEvents(day) == sortEventsByTime(dayEvents(day))

----------------------------------------------------------------------------
(* The document store and its snapshots.                                   *)

\* The payload with end one day after start.
NewDocDataEndNextDay(date, title, time) ==
    [title |-> title,
     time |-> time,
     start |-> TimestampFromDate(date),
     end |-> TimestampFromDate(addDays(date, 1))]

\* The fields handleAddEvent hands to addDoc (createdAt orders the store).
NewDocData(date, title, time) ==
    [title |-> title,
     time |-> time,
     start |-> TimestampFromDate(date),
     end |-> TimestampFromDate(date)]

StoredDoc(id, data) ==
    [id |-> id, title |-> data.title, time |-> data.time,
     start |-> data.start, end |-> data.end]

\* The onSnapshot callback: one Event per document, in query order.
EventsOfSnapshot(docs) ==
    [k \in 1..Len(docs) |->
        [id |-> docs[k].id,
         title |-> docs[k].title,
         time |-> docs[k].time,
         start |-> toDate(docs[k].start),
         end |-> toDate(docs[k].end)]]

\* deleteDoc(doc(db, "events", id)) on the store.
WithoutDoc(docs, id) == SelectSeq(docs, LAMBDA d : d.id # id)

RemoveAt(seq, i) == SubSeq(seq, 1, i - 1) \o SubSeq(seq, i + 1, Len(seq))

\* Stores left by earlier sessions: one event at local midnight of each
\* listed day, counted from today.
DenseOffsets == <<0 - 4, 0 - 3, 0 - 2, 0 - 1, 1, 2, 3, 4>>
SparseOffsets == <<0 - 8, 0, 2, 2>>
PresetTimes == <<Time1400, Time0900, EmptyStr, Time1130>>

StoreOnDays(t, offsets) ==
    [k \in 1..Len(offsets) |->
        StoredDoc(k, NewDocData(startOfDay(addDays(t, offsets[k])), TitleGym,
                               PresetTimes[((k - 1) % Len(PresetTimes)) + 1]))]

\* Times of day a session starts at: local midnight and 09:30:00.123.
TimesOfDay == {0, 34200123}

Wednesday == DaysFromCivil(2024, 6, 12)

----------------------------------------------------------------------------
(* KanbanBoard: what the render offers, and the handlers.                  *)

\* The "previous" arrow rendered whatever the window's start.
PrevAvailableAlways == Len(activeDays) > BoardColumns

\* The "previous" arrow is rendered.
PrevAvailable == Len(activeDays) > BoardColumns /\ boardWindowStart > 0

\* The "next" arrow is rendered.
NextAvailable ==
    /\ Len(activeDays) > BoardColumns
    /\ boardWindowStart + BoardColumns < Len(activeDays)

dialogVars ==
    <<isModalOpen, selectedDate, newEventTitle, newEventTime, modalWeekOffset>>
storeVars == <<store, nextId>>
historyVars == <<issued, deleted, sameSession, sessionIssued>>

\* The callback also moving the window back into the active days.
OnSnapshotClamped(docs) ==
    /\ events' = EventsOfSnapshot(docs)
    /\ LET last == Len(activeDaysOf(EventsOfSnapshot(docs), today)) - BoardColumns
       IN  boardWindowStart' =
               IF boardWindowStart <= last THEN boardWindowStart
               ELSE IF last > 0 THEN last ELSE 0
    /\ UNCHANGED <<today, storeVars, dialogVars, inflight, historyVars,
                   sortVars, themeVars, todoVars>>

\* setEvents(eventsArr) in the onSnapshot callback.
OnSnapshot(docs) ==
    /\ events' = EventsOfSnapshot(docs)
    /\ UNCHANGED <<today, storeVars, dialogVars, boardWindowStart, inflight,
                   historyVars, sortVars, themeVars, todoVars>>

Snapshot == OnSnapshot(store)

BoardPrev ==
    /\ PrevAvailable
    /\ boardWindowStart' = boardWindowStart - 1
    /\ UNCHANGED <<today, storeVars, events, dialogVars, inflight, historyVars,
                   sortVars, themeVars, todoVars>>

BoardNext ==
    /\ NextAvailable
    /\ boardWindowStart' = boardWindowStart + 1
    /\ UNCHANGED <<today, storeVars, events, dialogVars, inflight, historyVars,
                   sortVars, themeVars, todoVars>>

\* A column is under the dialog's backdrop while the dialog is open.
handleColumnClick(date) ==
    /\ ~isModalOpen
    /\ selectedDate' = date
    /\ newEventTime' = Time0900
    /\ isModalOpen' = TRUE
    /\ UNCHANGED <<today, storeVars, events, newEventTitle, modalWeekOffset,
                   boardWindowStart, inflight, historyVars, sortVars,
                   themeVars, todoVars>>

ColumnClick == \E i \in 1..Len(visibleBoardDays) : handleColumnClick(visibleBoardDays[i])

handleAddEventClick ==
    /\ selectedDate' = today
    /\ modalWeekOffset' = 0
    /\ newEventTime' = Time0900
    /\ isModalOpen' = TRUE
    /\ UNCHANGED <<today, storeVars, events, newEventTitle, boardWindowStart,
                   inflight, historyVars, sortVars, themeVars, todoVars>>

\* closeModal() without setModalWeekOffset(0).
closeModalKeepsWeek ==
    /\ isModalOpen' = FALSE
    /\ selectedDate' = Null
    /\ modalWeekOffset' = modalWeekOffset
    /\ newEventTitle' = EmptyStr
    /\ newEventTime' = EmptyStr

\* The effects of closeModal().
closeModal ==
    /\ isModalOpen' = FALSE
    /\ selectedDate' = Null
    /\ modalWeekOffset' = 0
    /\ newEventTitle' = EmptyStr
    /\ newEventTime' = EmptyStr

\* Cancel, or a click on the backdrop.
CloseClick ==
    /\ isModalOpen
    /\ closeModal
    /\ sameSession' = [i \in 1..Len(sameSession) |-> FALSE]
    /\ sessionIssued' = 0
    /\ UNCHANGED <<today, storeVars, events, boardWindowStart, inflight,
                   issued, deleted, sortVars, themeVars, todoVars>>

ModalPrevWeek ==
    /\ isModalOpen
    /\ modalWeekOffset > 0 - MaxWeekOffset
    /\ modalWeekOffset' = modalWeekOffset - 1
    /\ UNCHANGED <<today, storeVars, events, isModalOpen, selectedDate,
                   newEventTitle, newEventTime, boardWindowStart, inflight,
                   historyVars, sortVars, themeVars, todoVars>>

ModalNextWeek ==
    /\ isModalOpen
    /\ modalWeekOffset < MaxWeekOffset
    /\ modalWeekOffset' = modalWeekOffset + 1
    /\ UNCHANGED <<today, storeVars, events, isModalOpen, selectedDate,
                   newEventTitle, newEventTime, boardWindowStart, inflight,
                   historyVars, sortVars, themeVars, todoVars>>

\* The day buttons the model presses: Sunday's and Wednesday's.
ModalPicks == {1, 4}

\* A day button of the dialog's week grid.
ModalDayClick ==
    /\ isModalOpen
    /\ \E i \in ModalPicks : selectedDate' = modalWeekDays[i]
    /\ UNCHANGED <<today, storeVars, events, isModalOpen, newEventTitle,
                   newEventTime, modalWeekOffset, boardWindowStart, inflight,
                   historyVars, sortVars, themeVars, todoVars>>

TitleInputs == {EmptyStr, TitleBlank, TitleGym}
TimeInputs == {EmptyStr, Time1400}

TitleChange ==
    /\ isModalOpen
    /\ \E s \in TitleInputs : newEventTitle' = s
    /\ UNCHANGED <<today, storeVars, events, isModalOpen, selectedDate,
                   newEventTime, modalWeekOffset, boardWindowStart, inflight,
                   historyVars, sortVars, themeVars, todoVars>>

TimeChange ==
    /\ isModalOpen
    /\ \E s \in TimeInputs : newEventTime' = s
    /\ UNCHANGED <<today, storeVars, events, isModalOpen, selectedDate,
                   newEventTitle, modalWeekOffset, boardWindowStart, inflight,
                   historyVars, sortVars, themeVars, todoVars>>

\* The guard with the title trimmed first.
CanSubmitTrimmed ==
    selectedDate # Null /\ \E k \in 1..Len(newEventTitle) : newEventTitle[k] # " "

\* if (selectedDate && newEventTitle)
CanSubmit == selectedDate # Null /\ Truthy(newEventTitle)

\* handleAddEvent without the await: closeModal() right after the call.
handleAddEventFireAndForget ==
    /\ isModalOpen
    /\ IF CanSubmit
       THEN /\ issued < MaxCreates
            /\ inflight' = Append(inflight,
                    NewDocData(selectedDate, newEventTitle, newEventTime))
            /\ issued' = issued + 1
            /\ sameSession' = [i \in 1..(Len(sameSession) + 1) |-> FALSE]
            /\ sessionIssued' = 0
            /\ closeModal
            /\ UNCHANGED deleted
       ELSE UNCHANGED <<inflight, historyVars, dialogVars>>
    /\ UNCHANGED <<today, storeVars, events, boardWindowStart, sortVars,
                   themeVars, todoVars>>

\* handleAddEvent up to its await: the form is rendered while the dialog is
\* open; addDoc is called and the handler suspends.
handleAddEvent ==
    /\ isModalOpen
    /\ IF CanSubmit
       THEN /\ issued < MaxCreates
            /\ inflight' = Append(inflight,
                    NewDocData(selectedDate, newEventTitle, newEventTime))
            /\ issued' = issued + 1
            /\ sameSession' = Append(sameSession, TRUE)
            /\ sessionIssued' = sessionIssued + 1
            /\ UNCHANGED deleted
       ELSE UNCHANGED <<inflight, historyVars>>
    /\ UNCHANGED <<today, storeVars, events, dialogVars, boardWindowStart,
                   sortVars, themeVars, todoVars>>

\* addDoc resolves: the document is in the store, the handler resumes and
\* calls closeModal().
AddDocResolves ==
    \E i \in 1..Len(inflight) :
        /\ store' = <<StoredDoc(nextId, inflight[i])>> \o store
        /\ nextId' = nextId + 1
        /\ inflight' = RemoveAt(inflight, i)
        /\ closeModal
        /\ sameSession' = [k \in 1..(Len(sameSession) - 1) |-> FALSE]
        /\ sessionIssued' = 0
        /\ UNCHANGED <<today, events, boardWindowStart, issued, deleted,
                       sortVars, themeVars, todoVars>>

\* The rejection handled like the success: closeModal() runs.
AddDocRejectsAndCloses ==
    \E i \in 1..Len(inflight) :
        /\ inflight' = RemoveAt(inflight, i)
        /\ closeModal
        /\ sameSession' = [k \in 1..(Len(sameSession) - 1) |-> FALSE]
        /\ sessionIssued' = 0
        /\ UNCHANGED <<today, storeVars, events, boardWindowStart, issued,
                       deleted, sortVars, themeVars, todoVars>>

\* addDoc rejects: the handler ends at the await and closeModal() never runs.
AddDocRejects ==
    \E i \in 1..Len(inflight) :
        /\ inflight' = RemoveAt(inflight, i)
        /\ sameSession' = RemoveAt(sameSession, i)
        /\ UNCHANGED <<today, storeVars, events, dialogVars, boardWindowStart,
                       issued, deleted, sessionIssued, sortVars, themeVars,
                       todoVars>>

\* removeEvent: await deleteDoc(doc(db, "events", id)).
removeEvent(id) ==
    /\ deleted' = deleted + 1
    /\ \E ok \in BOOLEAN :
          store' = IF ok THEN WithoutDoc(store, id) ELSE store
    /\ UNCHANGED <<today, nextId, events, dialogVars, boardWindowStart,
                   inflight, issued, sameSession, sessionIssued, sortVars,
                   themeVars, todoVars>>

\* The delete button of an event card in a visible column, pressed while
\* fewer than limit deletions have been asked for.
DeleteClickUpTo(limit) ==
    /\ deleted < limit
    /\ \E i \in 1..Len(visibleBoardDays) :
          \E k \in 1..Len(sortedEvents(visibleBoardDays[i])) :
              removeEvent(sortedEvents(visibleBoardDays[i])[k].id)

DeleteClick == DeleteClickUpTo(MaxDeletes)

----------------------------------------------------------------------------
(* The theme flag: Header, App and KanbanBoard.                            *)

Absent == "absent"

\* value || 'light'
OrLight(value) == IF value = Absent THEN "light" ELSE value

\* prev === 'light' ? 'dark' : 'light'
Flip(value) == IF value = "light" THEN "dark" ELSE "light"

Observers == {"KanbanBoard", "App"}

\* Handlers run between tasks: no effect and no observer callback is due.
ThemeIdle == mounted /\ ~headerEffectPending /\ observersPending = {}

\* The effects of the first commit, children before parents: Header's
\* effect, then checkTheme() in KanbanBoard and in App, each followed by
\* observer.observe(...).
MountEffects ==
    /\ ~mounted
    /\ mounted' = TRUE
    /\ attrTheme' = headerTheme
    /\ lsTheme' = headerTheme
    /\ boardTheme' = OrLight(headerTheme)
    /\ appTheme' = OrLight(headerTheme)
    /\ UNCHANGED <<headerTheme, isSidebarOpen, headerEffectPending,
                   observersPending, toggles, attrAtToggle>>
    /\ UNCHANGED <<boardVars, sortVars, todoVars>>

\* Header.toggleTheme: the state changes, the [theme] effect is scheduled.
toggleTheme ==
    /\ ThemeIdle
    /\ headerTheme' = Flip(headerTheme)
    /\ headerEffectPending' = TRUE
    /\ Len(toggles) < MaxToggles
    /\ toggles' = Append(toggles, "header")
    /\ attrAtToggle' = attrTheme
    /\ UNCHANGED <<lsTheme, attrTheme, appTheme, boardTheme, isSidebarOpen,
                   mounted, observersPending>>
    /\ UNCHANGED <<boardVars, sortVars, todoVars>>

\* Header's effect: setAttribute('data-theme', theme), then setItem.
HeaderThemeEffect ==
    /\ headerEffectPending
    /\ headerEffectPending' = FALSE
    /\ attrTheme' = headerTheme
    /\ lsTheme' = headerTheme
    /\ observersPending' = Observers
    /\ UNCHANGED <<headerTheme, appTheme, boardTheme, isSidebarOpen, mounted,
                   toggles, attrAtToggle>>
    /\ UNCHANGED <<boardVars, sortVars, todoVars>>

\* The sidebar's theme button without localStorage.setItem.
SidebarThemeClickNoStore ==
    /\ ThemeIdle
    /\ LET nextTheme == Flip(appTheme)
       IN  /\ attrTheme' = nextTheme
           /\ appTheme' = nextTheme
    /\ observersPending' = Observers
    /\ Len(toggles) < MaxToggles
    /\ toggles' = Append(toggles, "sidebar")
    /\ attrAtToggle' = attrTheme
    /\ UNCHANGED <<lsTheme, headerTheme, boardTheme, isSidebarOpen, mounted,
                   headerEffectPending>>
    /\ UNCHANGED <<boardVars, sortVars, todoVars>>

\* The sidebar's theme button in App.
SidebarThemeClick ==
    /\ ThemeIdle
    /\ LET nextTheme == Flip(appTheme)
       IN  /\ attrTheme' = nextTheme
           /\ lsTheme' = nextTheme
           /\ appTheme' = nextTheme
    /\ observersPending' = Observers
    /\ Len(toggles) < MaxToggles
    /\ toggles' = Append(toggles, "sidebar")
    /\ attrAtToggle' = attrTheme
    /\ UNCHANGED <<headerTheme, boardTheme, isSidebarOpen, mounted,
                   headerEffectPending>>
    /\ UNCHANGED <<boardVars, sortVars, todoVars>>

\* checkTheme() as KanbanBoard's MutationObserver callback.
BoardCheckTheme ==
    /\ ~headerEffectPending
    /\ "KanbanBoard" \in observersPending
    /\ observersPending' = observersPending \ {"KanbanBoard"}
    /\ boardTheme' = OrLight(attrTheme)
    /\ UNCHANGED <<lsTheme, attrTheme, headerTheme, appTheme, isSidebarOpen,
                   mounted, headerEffectPending, toggles, attrAtToggle>>
    /\ UNCHANGED <<boardVars, sortVars, todoVars>>

\* checkTheme() as App's MutationObserver callback.
AppCheckTheme ==
    /\ ~headerEffectPending
    /\ "App" \in observersPending
    /\ observersPending' = observersPending \ {"App"}
    /\ appTheme' = OrLight(attrTheme)
    /\ UNCHANGED <<lsTheme, attrTheme, headerTheme, boardTheme, isSidebarOpen,
                   mounted, headerEffectPending, toggles, attrAtToggle>>
    /\ UNCHANGED <<boardVars, sortVars, todoVars>>

\* Header's menu button: onToggleSidebar.
SidebarToggle ==
    /\ ThemeIdle
    /\ isSidebarOpen' = ~isSidebarOpen
    /\ UNCHANGED <<lsTheme, attrTheme, headerTheme, appTheme, boardTheme,
                   mounted, headerEffectPending, observersPending, toggles,
                   attrAtToggle>>
    /\ UNCHANGED <<boardVars, sortVars, todoVars>>

\* A click on the sidebar overlay.
OverlayClick ==
    /\ ThemeIdle
    /\ isSidebarOpen' = FALSE
    /\ UNCHANGED <<lsTheme, attrTheme, headerTheme, appTheme, boardTheme,
                   mounted, headerEffectPending, observersPending, toggles,
                   attrAtToggle>>
    /\ UNCHANGED <<boardVars, sortVars, todoVars>>

\* The first render with the stored value.
InitThemeWith(storedValue) ==
    /\ lsTheme = storedValue
    /\ attrTheme = Absent
    /\ headerTheme = OrLight(storedValue)
    /\ appTheme = OrLight(storedValue)
    /\ boardTheme = OrLight(storedValue)
    /\ isSidebarOpen = FALSE
    /\ mounted = FALSE
    /\ headerEffectPending = FALSE
    /\ observersPending = {}
    /\ toggles = <<>>
    /\ attrAtToggle = Absent

InitTheme == InitThemeWith(Absent)

----------------------------------------------------------------------------
(* TodoList: the task list and the "todos" collection.                     *)

TaskBuyMilk == <<"B", "u", "y", " ", "m", "i", "l", "k">>
TaskPadded == <<" ", "m", " ">>
TaskBlanks == <<" ", " ", " ">>
TaskTab == <<"\t">>

\* The characters String.prototype.trim removes.
IsWhitespace(c) == c \in {" ", "\t", "\n"}

RECURSIVE trimStart(_)
trimStart(s) ==
    IF s = <<>> THEN <<>>
    ELSE IF IsWhitespace(Head(s)) THEN trimStart(Tail(s))
    ELSE s

RECURSIVE trimEnd(_)
trimEnd(s) ==
    IF s = <<>> THEN <<>>
    ELSE IF IsWhitespace(s[Len(s)]) THEN trimEnd(SubSeq(s, 1, Len(s) - 1))
    ELSE s

\* The guard without the trim.
trimNothing(s) == s

\* String.prototype.trim
trim(s) == trimEnd(trimStart(s))

\* The values typed into the "New Task" input.
TaskInputs == {EmptyStr, TitleBlank, TaskBlanks, TaskTab, TaskPadded, TaskBuyMilk}

TodoDoc(id, data) == [id |-> id, text |-> data.text, completed |-> data.completed]

\* updateDoc(todoRef, { completed: value }): a partial update of one
\* document; it fails when the document does not exist.
UpdateCompleted(docs, id, value) ==
    [k \in 1..Len(docs) |->
        IF docs[k].id = id
        THEN [id |-> docs[k].id, text |-> docs[k].text, completed |-> value]
        ELSE docs[k]]

\* The onSnapshot callback: setTodos(todosArr), in query order.
TodoSnapshot ==
    /\ todos' = todoStore
    /\ toggleLog' = <<>>
    /\ UNCHANGED <<todoStore, todoNextId, inputValue, todoInflight, todoCalls>>
    /\ UNCHANGED <<boardVars, sortVars, themeVars>>

InputChange ==
    /\ \E s \in TaskInputs : inputValue' = s
    /\ UNCHANGED <<todoStore, todoNextId, todos, todoInflight, todoCalls,
                   toggleLog>>
    /\ UNCHANGED <<boardVars, sortVars, themeVars>>

\* addTodo up to its await: addDoc is called and the handler suspends.
addTodo ==
    /\ IF trim(inputValue) = EmptyStr
       THEN UNCHANGED <<todoInflight, todoCalls>>
       ELSE /\ todoCalls < MaxTaskCalls
            /\ todoInflight' = Append(todoInflight,
                    [text |-> inputValue, completed |-> FALSE])
            /\ todoCalls' = todoCalls + 1
    /\ UNCHANGED <<todoStore, todoNextId, todos, inputValue, toggleLog>>
    /\ UNCHANGED <<boardVars, sortVars, themeVars>>

\* addDoc resolves: the document is in the store, the handler resumes and
\* calls setInputValue('').
AddTodoResolves ==
    \E i \in 1..Len(todoInflight) :
        /\ todoStore' = <<TodoDoc(todoNextId, todoInflight[i])>> \o todoStore
        /\ todoNextId' = todoNextId + 1
        /\ todoInflight' = RemoveAt(todoInflight, i)
        /\ inputValue' = EmptyStr
        /\ UNCHANGED <<todos, todoCalls, toggleLog>>
        /\ UNCHANGED <<boardVars, sortVars, themeVars>>

\* addDoc rejects: the handler ends at the await.
AddTodoRejects ==
    \E i \in 1..Len(todoInflight) :
        /\ todoInflight' = RemoveAt(todoInflight, i)
        /\ UNCHANGED <<todoStore, todoNextId, todos, inputValue, todoCalls,
                       toggleLog>>
        /\ UNCHANGED <<boardVars, sortVars, themeVars>>

\* The update writing the flag it was handed.
toggleTodoSame(id, completed) ==
    /\ todoCalls < MaxTaskCalls
    /\ todoCalls' = todoCalls + 1
    /\ toggleLog' = Append(toggleLog, [id |-> id, completed |-> completed])
    /\ \E ok \in BOOLEAN :
          todoStore' =
              IF ok THEN UpdateCompleted(todoStore, id, completed) ELSE todoStore
    /\ UNCHANGED <<todoNextId, todos, inputValue, todoInflight>>
    /\ UNCHANGED <<boardVars, sortVars, themeVars>>

\* toggleTodo: updateDoc(todoRef, { completed: !completed }).
toggleTodo(id, completed) ==
    /\ todoCalls < MaxTaskCalls
    /\ todoCalls' = todoCalls + 1
    /\ toggleLog' = Append(toggleLog, [id |-> id, completed |-> ~completed])
    /\ \E ok \in BOOLEAN :
          todoStore' =
              IF ok THEN UpdateCompleted(todoStore, id, ~completed) ELSE todoStore
    /\ UNCHANGED <<todoNextId, todos, inputValue, todoInflight>>
    /\ UNCHANGED <<boardVars, sortVars, themeVars>>

\* The checkbox of a listed task.
ToggleClick ==
    \E k \in 1..Len(todos) : toggleTodo(todos[k].id, todos[k].completed)

\* removeTodo: deleteDoc(doc(db, "todos", id)).
removeTodo(id) ==
    /\ todoCalls < MaxTaskCalls
    /\ todoCalls' = todoCalls + 1
    /\ \E ok \in BOOLEAN :
          todoStore' = IF ok THEN WithoutDoc(todoStore, id) ELSE todoStore
    /\ UNCHANGED <<todoNextId, todos, inputValue, todoInflight, toggleLog>>
    /\ UNCHANGED <<boardVars, sortVars, themeVars>>

\* The remove button of a listed task.
RemoveTodoClick == \E k \in 1..Len(todos) : removeTodo(todos[k].id)

InitTodoWith(docs) ==
    /\ todoStore = docs
    /\ todoNextId = 100
    /\ todos = <<>>
    /\ inputValue = EmptyStr
    /\ todoInflight = <<>>
    /\ todoCalls = 0
    /\ toggleLog = <<>>

InitTodo == InitTodoWith(<<>>)

InitDialog ==
    /\ nextId = 100
    /\ events = <<>>
    /\ isModalOpen = FALSE
    /\ selectedDate = Null
    /\ newEventTitle = EmptyStr
    /\ newEventTime = EmptyStr
    /\ modalWeekOffset = 0
    /\ boardWindowStart = 0
    /\ inflight = <<>>
    /\ issued = 0
    /\ deleted = 0
    /\ sameSession = <<>>
    /\ sessionIssued = 0

InitSort ==
    /\ sortIn = <<>>
    /\ sortOut = <<>>
    /\ sortCalled = FALSE

\* The board over a store of few events: the dialog and the writes.
Init ==
    /\ today \in {[day |-> Wednesday, tod |-> t] : t \in TimesOfDay}
    /\ store = <<>>
    /\ InitDialog
    /\ InitSort
    /\ InitTheme
    /\ InitTodo

Next ==
    \/ Snapshot
    \/ ColumnClick
    \/ handleAddEventClick
    \/ CloseClick
    \/ ModalPrevWeek
    \/ ModalNextWeek
    \/ ModalDayClick
    \/ TitleChange
    \/ TimeChange
    \/ handleAddEvent
    \/ AddDocResolves
    \/ AddDocRejects
    \/ DeleteClick

Spec == Init /\ [][Next]_vars

\* The board over a store of many events: the window and the deletions.
InitWindow ==
    /\ today \in {[day |-> Wednesday, tod |-> t] : t \in TimesOfDay}
    /\ store \in {StoreOnDays(today, DenseOffsets), StoreOnDays(today, SparseOffsets)}
    /\ InitDialog
    /\ InitSort
    /\ InitTheme
    /\ InitTodo

NextWindow ==
    \/ Snapshot
    \/ BoardPrev
    \/ BoardNext
    \/ DeleteClick
    \/ ColumnClick
    \/ handleAddEventClick
    \/ CloseClick

SpecWindow == InitWindow /\ [][NextWindow]_vars

----------------------------------------------------------------------------
(* The derived days over any store: today fixed, the store drawn from the  *)
(* documents below, and the snapshot delivered.                            *)

DayOffsets == {0 - 8, 0 - 7, 0, 1, 8}

DocsAround(t) ==
    {NewDocData([day |-> t.day + o, tod |-> ms], TitleGym, EmptyStr) :
        o \in DayOffsets, ms \in TimesOfDay}

StoresAround(t) ==
    UNION {{[k \in 1..n |-> StoredDoc(k, f[k])] : f \in [1..n -> DocsAround(t)]} :
           n \in 0..MaxEvents}

InitDays ==
    /\ today \in {[day |-> Wednesday, tod |-> t] : t \in TimesOfDay}
    /\ store \in StoresAround(today)
    /\ InitDialog
    /\ InitSort
    /\ InitTheme
    /\ InitTodo

NextDays == Snapshot

SpecDays == InitDays /\ [][NextDays]_vars

----------------------------------------------------------------------------
(* sortEventsByTime over any short array of events.                        *)

SortTimes == {EmptyStr, Time0000, Time0900, Time1130, Time1400}

SortInputs ==
    UNION {{[k \in 1..n |->
                [id |-> k, title |-> TitleGym, time |-> f[k],
                 start |-> [day |-> Wednesday, tod |-> 0],
                 end |-> [day |-> Wednesday, tod |-> 0]]] :
            f \in [1..n -> SortTimes]} : n \in 0..MaxSortLen}

SortCall ==
    /\ ~sortCalled
    /\ sortOut' = sortEventsByTime(sortIn)
    /\ sortCalled' = TRUE
    /\ UNCHANGED <<boardVars, sortIn, themeVars, todoVars>>

InitSortCall ==
    /\ today = [day |-> Wednesday, tod |-> 0]
    /\ store = <<>>
    /\ InitDialog
    /\ sortIn \in SortInputs
    /\ sortOut = <<>>
    /\ sortCalled = FALSE
    /\ InitTheme
    /\ InitTodo

NextSort == SortCall

SpecSort == InitSortCall /\ [][NextSort]_vars

----------------------------------------------------------------------------
(* The dialog's week over any today.                                       *)

InitWeek ==
    /\ today \in {[day |-> Wednesday + k, tod |-> t] :
                    k \in 0..MaxDayShift, t \in TimesOfDay}
    /\ store = <<>>
    /\ InitDialog
    /\ InitSort
    /\ InitTheme
    /\ InitTodo

NextWeek ==
    \/ handleAddEventClick
    \/ CloseClick
    \/ ModalPrevWeek
    \/ ModalNextWeek
    \/ ModalDayClick

SpecWeek == InitWeek /\ [][NextWeek]_vars

----------------------------------------------------------------------------
(* The theme flag over any stored value.                                   *)

InitThemeSpec ==
    /\ today = [day |-> Wednesday, tod |-> 0]
    /\ store = <<>>
    /\ InitDialog
    /\ InitSort
    /\ \E storedValue \in {Absent, "light", "dark"} : InitThemeWith(storedValue)
    /\ InitTodo

NextTheme ==
    \/ MountEffects
    \/ toggleTheme
    \/ HeaderThemeEffect
    \/ SidebarThemeClick
    \/ BoardCheckTheme
    \/ AppCheckTheme
    \/ SidebarToggle
    \/ OverlayClick

SpecTheme == InitThemeSpec /\ [][NextTheme]_vars

----------------------------------------------------------------------------
(* The task list over a store of two tasks.                                *)

TodoPreset ==
    <<TodoDoc(2, [text |-> TaskPadded, completed |-> TRUE]),
      TodoDoc(1, [text |-> TaskBuyMilk, completed |-> FALSE])>>

InitTodoSpec ==
    /\ today = [day |-> Wednesday, tod |-> 0]
    /\ store = <<>>
    /\ InitDialog
    /\ InitSort
    /\ InitTheme
    /\ InitTodoWith(TodoPreset)

NextTodo ==
    \/ TodoSnapshot
    \/ InputChange
    \/ addTodo
    \/ AddTodoResolves
    \/ AddTodoRejects
    \/ ToggleClick
    \/ RemoveTodoClick

SpecTodo == InitTodoSpec /\ [][NextTodo]_vars

----------------------------------------------------------------------------
(* The board over a week of events after today: deleting them all.         *)

ShrinkOffsets == <<1, 2, 3, 4, 5, 6, 7>>

DeleteClickShrink == DeleteClickUpTo(MaxShrinkDeletes)

InitShrink ==
    /\ today \in {[day |-> Wednesday, tod |-> t] : t \in TimesOfDay}
    /\ store = StoreOnDays(today, ShrinkOffsets)
    /\ InitDialog
    /\ InitSort
    /\ InitTheme
    /\ InitTodo

NextShrink ==
    \/ Snapshot
    \/ BoardPrev
    \/ BoardNext
    \/ DeleteClickShrink

SpecShrink == InitShrink /\ [][NextShrink]_vars

----------------------------------------------------------------------------
(* The board over a day that has events already: creating one more.        *)

TitleRun == <<"R", "u", "n">>

\* Today's events of earlier sessions, newest first: one without a time,
\* one at "00:00", one at "09:00".
PeerStore(t) ==
    <<StoredDoc(3, NewDocData(startOfDay(t), TitleRun, EmptyStr)),
      StoredDoc(2, NewDocData(t, TitleRun, Time0000)),
      StoredDoc(1, NewDocData(t, TitleRun, Time0900))>>

InitCreate ==
    /\ today \in {[day |-> Wednesday, tod |-> t] : t \in TimesOfDay}
    /\ store = PeerStore(today)
    /\ InitDialog
    /\ InitSort
    /\ InitTheme
    /\ InitTodo

NextCreate ==
    \/ Snapshot
    \/ ColumnClick
    \/ handleAddEventClick
    \/ CloseClick
    \/ ModalDayClick
    \/ TitleChange
    \/ TimeChange
    \/ handleAddEvent
    \/ AddDocResolves
    \/ AddDocRejects

SpecCreate == InitCreate /\ [][NextCreate]_vars

----------------------------------------------------------------------------
(* Properties.                                                             *)

DaysOf(dates) == [i \in 1..Len(dates) |-> dates[i].day]

EventDays == {events[k].start.day : k \in 1..Len(events)}

\* C1: in every reachable state of the board the "previous" arrow is
\* offered exactly when boardWindowStart > 0 and the "next" arrow exactly
\* when boardWindowStart + 7 < length(activeDays).
C1_NavAvailability ==
    /\ PrevAvailable <=> boardWindowStart > 0
    /\ NextAvailable <=> boardWindowStart + 7 < Len(activeDays)

\* C2: once a theme toggle (header or sidebar, in any order) has been
\* handled, data-theme is the opposite of what it was when the button was
\* pressed, and local storage holds that same new value.
C2_ToggleFlips ==
    (ThemeIdle /\ toggles # <<>>) =>
        /\ attrTheme = Flip(attrAtToggle)
        /\ lsTheme = attrTheme

\* C3: the active days contain today, ascend strictly by calendar day and
\* hold no day twice.
C3_ActiveDaysOrdered ==
    /\ \E i \in 1..Len(activeDays) : activeDays[i] = today
    /\ \A i, j \in 1..Len(activeDays) :
          i < j => activeDays[i].day < activeDays[j].day
    /\ Cardinality({activeDays[i].day : i \in 1..Len(activeDays)}) = Len(activeDays)

\* C3 witness: a snapshot with two events on one day and a third elsewhere.
C3_Witness ==
    /\ Len(events) >= 3
    /\ events[1].start.day = events[2].start.day
    /\ Len(activeDays) >= 3

\* C4: a calendar day is an active day exactly when it lies in
\* [today - 7, today + 7] and is today or the day of some event's start.
C4_ActiveDayIff ==
    LET active == {activeDays[i].day : i \in 1..Len(activeDays)}
        onEvent == EventDays
    IN  \A d \in (today.day - 9)..(today.day + 9) :
            d \in active
            <=> /\ today.day - 7 <= d
                /\ d <= today.day + 7
                /\ d = today.day \/ d \in onEvent

\* C4 witness: events on today + 8 (outside) and on today - 7 (inside).
C4_Witness ==
    /\ today.day + 8 \in EventDays
    /\ today.day - 7 \in EventDays
    /\ Len(activeDays) = 2

C5_Scenario ==
    /\ today.day = DaysFromCivil(2024, 6, 12)
    /\ EventDays = {DaysFromCivil(2024, 6, 5), DaysFromCivil(2024, 6, 20)}

\* C5 as stated: with today = 2024-06-12 and events on 06-05 and 06-20
\* only, the active days are [06-05, 06-12, 06-20].
C5_AsStated ==
    C5_Scenario =>
        DaysOf(activeDays) = <<DaysFromCivil(2024, 6, 5), DaysFromCivil(2024, 6, 12),
                               DaysFromCivil(2024, 6, 20)>>

\* C5 as amended: with today = 2024-06-12 (a Wednesday) and events on 06-05
\* and 06-20 only, the active days are [06-05, 06-12]; 06-20 is today + 8.
C5_ActiveDaysOfScenario ==
    C5_Scenario =>
        /\ DaysOf(activeDays) = <<DaysFromCivil(2024, 6, 5), DaysFromCivil(2024, 6, 12)>>
        /\ getDay(today) = 3
        /\ DaysFromCivil(2024, 6, 20) = today.day + 8

\* C5 witness: the scenario, its snapshot delivered.
C5_Witness == C5_Scenario /\ Len(events) = 2 /\ Len(activeDays) = 2

\* The minute of the day an "HH:MM" string names; '' counts as "00:00".
Digit(c) == CollationRank(c) - 1
MinuteOfDay(time) ==
    IF time = EmptyStr THEN 0
    ELSE (Digit(time[1]) * 10 + Digit(time[2])) * 60
         + Digit(time[4]) * 10 + Digit(time[5])

TimesOf(evs) == [i \in 1..Len(evs) |-> evs[i].time]

\* C6: sortEventsByTime returns its input reordered by ascending time, an
\* event without a time counting as "00:00"; events of equal key keep their
\* input order; the input is left as it was; and the times
\* ["14:00","09:00","","11:30"] come out as ["","09:00","11:30","14:00"].
C6_SortByTime ==
    sortCalled =>
        /\ Len(sortOut) = Len(sortIn)
        /\ \A k \in 1..Len(sortIn) : sortIn[k].id = k
        /\ \A k \in 1..Len(sortIn) :
              Cardinality({i \in 1..Len(sortOut) : sortOut[i] = sortIn[k]}) = 1
        /\ \A i, j \in 1..Len(sortOut) :
              i < j =>
                /\ MinuteOfDay(sortOut[i].time) <= MinuteOfDay(sortOut[j].time)
                /\ MinuteOfDay(sortOut[i].time) = MinuteOfDay(sortOut[j].time)
                      => sortOut[i].id < sortOut[j].id
        /\ TimesOf(sortIn) = <<Time1400, Time0900, EmptyStr, Time1130>>
              => TimesOf(sortOut) = <<EmptyStr, Time0900, Time1130, Time1400>>

\* C6 witness: the example has been sorted.
C6_Witness ==
    /\ sortCalled
    /\ TimesOf(sortIn) = <<Time1400, Time0900, EmptyStr, Time1130>>
    /\ TimesOf(sortOut) = <<EmptyStr, Time0900, Time1130, Time1400>>

\* C7: the list of a visible day holds exactly the local events whose start
\* falls on that calendar day, each once; it is empty when there is none.
C7_ColumnEvents ==
    \A i \in 1..Len(visibleBoardDays) :
        LET day == visibleBoardDays[i]
            list == sortedEvents(day)
            onDay == {k \in 1..Len(events) : events[k].start.day = day.day}
        IN  /\ Len(list) = Cardinality(onDay)
            /\ \A k \in onDay :
                  Cardinality({n \in 1..Len(list) : list[n] = events[k]}) = 1
            /\ onDay = {} => list = <<>>

\* C7 witness: a visible day with two events at different times of day and
\* a visible day with none.
C7_Witness ==
    /\ \E i \in 1..Len(visibleBoardDays) :
          LET list == sortedEvents(visibleBoardDays[i])
          IN  Len(list) = 2 /\ list[1].start.tod # list[2].start.tod
    /\ \E i \in 1..Len(visibleBoardDays) : sortedEvents(visibleBoardDays[i]) = <<>>

\* C8: the dialog's week is 7 consecutive days that start on the Sunday of
\* today's week moved by 7 * modalWeekOffset days; so the week of offset 0
\* contains today and the week of offset 1 starts 7 days after it.
C8_ModalWeek ==
    LET first == modalWeekDays[1].day
        sunday == first - 7 * modalWeekOffset
    IN  /\ Len(modalWeekDays) = 7
        /\ \A i \in 1..7 : modalWeekDays[i].day = first + (i - 1)
        /\ (sunday - DaysFromCivil(2024, 6, 9)) % 7 = 0
        /\ sunday <= today.day /\ today.day <= sunday + 6
        /\ \E i \in 1..7 : modalWeekDaysOf(today, 0)[i].day = today.day
        /\ modalWeekDaysOf(today, 1)[1].day = modalWeekDaysOf(today, 0)[1].day + 7

\* C8 witness: the dialog shows another week than today's, today a Sunday.
C8_Witness ==
    /\ isModalOpen
    /\ modalWeekOffset # 0
    /\ today.day = DaysFromCivil(2024, 6, 16)

\* C9: modalWeekOffset is 0 whenever the dialog is closed, so after cancel,
\* backdrop click and successful submit, and after the floating add button;
\* a column click selects the column's day and leaves it as it is; a week
\* navigation changes it by exactly one.
C9_WeekOffset ==
    [][/\ ~isModalOpen' => modalWeekOffset' = 0
       /\ (CloseClick \/ AddDocResolves) => ~isModalOpen' /\ modalWeekOffset' = 0
       /\ handleAddEventClick => isModalOpen' /\ modalWeekOffset' = 0
       /\ \A i \in 1..Len(visibleBoardDays) :
             handleColumnClick(visibleBoardDays[i]) =>
                /\ isModalOpen'
                /\ selectedDate' = visibleBoardDays[i]
                /\ modalWeekOffset' = modalWeekOffset
       /\ ModalPrevWeek => modalWeekOffset' = modalWeekOffset - 1
       /\ ModalNextWeek => modalWeekOffset' = modalWeekOffset + 1]_vars

\* C9 witness: the dialog opened by a click on the column of another day
\* than today.
C9_Witness ==
    /\ isModalOpen
    /\ selectedDate # Null
    /\ selectedDate.day # today.day
    /\ selectedDate.tod # 0
    /\ modalWeekOffset = 0

\* C10: a submit calls addDoc exactly when a day is selected and the title
\* is not the empty string, a title of blanks included; otherwise it issues
\* nothing and leaves the store and the dialog as they are.
C10_SubmitGuard ==
    isModalOpen =>
        IF selectedDate # Null /\ newEventTitle # <<>>
        THEN /\ issued < MaxCreates =>
                  ENABLED (handleAddEvent /\ issued' = issued + 1
                           /\ Len(inflight') = Len(inflight) + 1)
             /\ ~ENABLED (handleAddEvent /\ issued' = issued)
        ELSE ~ENABLED (handleAddEvent /\ vars' # vars)

\* C10 witness: a request issued for a title of one blank, and the dialog
\* open on an empty title.
C10_Witness ==
    /\ Len(inflight) = 1
    /\ inflight[1].title = TitleBlank
    /\ isModalOpen
    /\ newEventTitle = EmptyStr

DialogCleared ==
    /\ ~isModalOpen'
    /\ selectedDate' = Null
    /\ newEventTitle' = EmptyStr
    /\ newEventTime' = EmptyStr
    /\ modalWeekOffset' = 0

\* C11: a submit that calls addDoc hands it start and end on one calendar
\* day, the day selected in the dialog at that moment, and the time input
\* as it is then; the document that reaches the store carries these fields
\* unchanged, so every stored event starts and ends on one calendar day.
C11_CreatedOnSelectedDay ==
    /\ [](\A k \in 1..Len(store) :
             toDate(store[k].start).day = toDate(store[k].end).day)
    /\ [][/\ issued' = issued + 1 =>
               LET data == inflight'[Len(inflight')]
               IN  /\ toDate(data.start).day = selectedDate.day
                   /\ toDate(data.end).day = selectedDate.day
                   /\ data.time = newEventTime
          /\ Len(store') > Len(store) =>
               \E i \in 1..Len(inflight) :
                   /\ store'[1].start = inflight[i].start
                   /\ store'[1].end = inflight[i].end
                   /\ store'[1].time = inflight[i].time]_vars

\* C11 witness: a stored event without a time, on a day picked in the
\* dialog's week grid.
C11_Witness ==
    /\ store # <<>>
    /\ store[1].time = EmptyStr
    /\ toDate(store[1].start).day # today.day

\* C12: every event the program has created, or is creating, has start and
\* end at local midnight.
C12_AtMidnight ==
    /\ \A k \in 1..Len(store) :
          toDate(store[k].start).tod = 0 /\ toDate(store[k].end).tod = 0
    /\ \A k \in 1..Len(inflight) :
          toDate(inflight[k].start).tod = 0 /\ toDate(inflight[k].end).tod = 0

\* C13 as stated: the dialog is closed right after the write call is
\* issued.
C13_AsStated == [][issued' = issued + 1 => ~isModalOpen']_vars

\* C13 as amended: issuing the write leaves the dialog open and its inputs
\* as they are; the dialog closes only when the store confirms a write or
\* the user closes it.
C13_ClosesOnCompletion ==
    [][/\ issued' = issued + 1 => isModalOpen' /\ UNCHANGED dialogVars
       /\ (isModalOpen /\ ~isModalOpen') =>
             \/ Len(store') > Len(store) /\ Len(inflight') < Len(inflight)
             \/ store' = store /\ inflight' = inflight]_vars

\* C13 witness: a create in flight, the dialog it was submitted from still
\* open on the submitted inputs.
C13_Witness ==
    /\ Len(inflight) = 1
    /\ sameSession[1]
    /\ isModalOpen
    /\ inflight[1].title = newEventTitle
    /\ inflight[1].time = newEventTime

\* C14: when a create succeeds the dialog is closed and its inputs are
\* cleared; when it fails the dialog state is left as it is.
C14_CloseOnSuccessOnly ==
    [][/\ Len(store') > Len(store) => DialogCleared
       /\ (Len(inflight') < Len(inflight) /\ store' = store) =>
             UNCHANGED dialogVars]_vars

\* C14 witness: the create has failed and the dialog it was submitted from
\* is still open with its title.
C14_Witness ==
    /\ issued = 1
    /\ sessionIssued = 1
    /\ inflight = <<>>
    /\ store = <<>>
    /\ isModalOpen
    /\ newEventTitle = TitleGym

\* C20: the completion of a create submitted from a dialog that has been
\* closed since leaves a dialog opened later as it is, and one dialog
\* session issues at most one create.
C20_CompletionClosesOwnSession ==
    [][/\ \A i \in 1..Len(inflight) :
             (/\ Len(store') > Len(store)
              /\ inflight' = RemoveAt(inflight, i)
              /\ ~sameSession[i]
              /\ isModalOpen) => isModalOpen' /\ UNCHANGED dialogVars
       /\ sessionIssued' <= 1]_vars

\* C17: a step that moves the board's window moves boardWindowStart by
\* exactly one and changes nothing else; it moves back only from a start
\* above 0 and forward only while boardWindowStart + 7 < length(activeDays);
\* boardWindowStart is never negative.
C17_BoardNavigation ==
    /\ [](boardWindowStart >= 0)
    /\ [][/\ BoardPrev => boardWindowStart' = boardWindowStart - 1
          /\ BoardNext => boardWindowStart' = boardWindowStart + 1
          /\ boardWindowStart' # boardWindowStart =>
                /\ \/ boardWindowStart' = boardWindowStart - 1
                   \/ boardWindowStart' = boardWindowStart + 1
                /\ UNCHANGED <<today, storeVars, events, dialogVars, inflight,
                               historyVars>>
          /\ boardWindowStart' < boardWindowStart => boardWindowStart > 0
          /\ boardWindowStart' > boardWindowStart =>
                boardWindowStart + 7 < Len(activeDays)]_vars

\* C17 witness: the window at its last position, after two steps forward.
C17_Witness ==
    /\ boardWindowStart = 2
    /\ Len(activeDays) = 9
    /\ ~NextAvailable
    /\ PrevAvailable

\* C18: a deletion, and a snapshot that changes the local events, leave
\* boardWindowStart as it is; where boardWindowStart >= length(activeDays)
\* no day is visible although today is an active day.
C18_NoReclamp ==
    /\ []((boardWindowStart >= Len(activeDays)) =>
             /\ visibleBoardDays = <<>>
             /\ \E i \in 1..Len(activeDays) : activeDays[i] = today)
    /\ [][(store' # store \/ events' # events) =>
             boardWindowStart' = boardWindowStart]_vars

\* C18 witness: the events of the visible days deleted, the window past the
\* active days that are left.
C18_Witness ==
    /\ boardWindowStart >= Len(activeDays)
    /\ visibleBoardDays = <<>>
    /\ deleted >= 7
    /\ store = <<>>

\* The creation call addTodo makes for the input as it is.
AddTodoIssues ==
    /\ todoInflight' = Append(todoInflight,
            [text |-> inputValue, completed |-> FALSE])
    /\ todoCalls' = todoCalls + 1
    /\ UNCHANGED <<todoStore, todoNextId, todos, inputValue, toggleLog>>

\* C15: a submit of the task form with an input of white space only, or
\* none, changes nothing; with any other input it makes exactly one
\* creation call, with the input text as typed and completed = false, and
\* leaves the input as it is; the input is cleared when that call resolves.
C15_AddTaskGuard ==
    /\ IF \A k \in 1..Len(inputValue) : IsWhitespace(inputValue[k])
       THEN ~ENABLED (addTodo /\ vars' # vars)
       ELSE /\ todoCalls < MaxTaskCalls => ENABLED (addTodo /\ AddTodoIssues)
            /\ ~ENABLED (addTodo /\ ~AddTodoIssues)
    /\ ~ENABLED (AddTodoResolves /\ inputValue' # EmptyStr)
    /\ ~ENABLED (AddTodoRejects /\ inputValue' # inputValue)

\* C15 witness: a creation call in flight for " m " as typed, the input
\* since changed to blanks.
C15_Witness ==
    /\ Len(todoInflight) = 1
    /\ todoInflight[1].text = TaskPadded
    /\ ~todoInflight[1].completed
    /\ inputValue = TaskBlanks

\* C16: a toggle makes exactly one update, of the task's completed flag to
\* the negation of the flag in the local view; no text and no other task
\* changes; the toggles of one task between two snapshots all write the
\* same value.
C16_ToggleWritesNegation ==
    /\ [](\A a, b \in 1..Len(toggleLog) :
             toggleLog[a].id = toggleLog[b].id =>
                 toggleLog[a].completed = toggleLog[b].completed)
    /\ [][Len(toggleLog') = Len(toggleLog) + 1 =>
             LET w == toggleLog'[Len(toggleLog')]
             IN  /\ \E k \in 1..Len(todos) :
                       todos[k].id = w.id /\ w.completed = ~todos[k].completed
                 /\ todoCalls' = todoCalls + 1
                 /\ todos' = todos
                 /\ Len(todoStore') = Len(todoStore)
                 /\ \A k \in 1..Len(todoStore) :
                       /\ todoStore'[k].id = todoStore[k].id
                       /\ todoStore'[k].text = todoStore[k].text
                       /\ todoStore[k].id # w.id => todoStore'[k] = todoStore[k]
                       /\ todoStore'[k].completed # todoStore[k].completed =>
                             todoStore'[k].completed = w.completed]_vars

\* C16 witness: one task toggled twice since the last snapshot; the store
\* holds the negation of the local flag, not the local flag again.
C16_Witness ==
    /\ Len(toggleLog) = 2
    /\ toggleLog[1] = toggleLog[2]
    /\ \E k \in 1..Len(todos) :
          /\ todos[k].id = toggleLog[1].id
          /\ todos[k].completed = ~toggleLog[1].completed
          /\ \E n \in 1..Len(todoStore) :
                /\ todoStore[n].id = todos[k].id
                /\ todoStore[n].completed = ~todos[k].completed

\* An event of the local collection that this session created.
CreatedHere(e) ==
    \A n \in 1..Len(PeerStore(today)) : PeerStore(today)[n].id # e.id

\* The position of the event of identity id in a list.
PositionOf(list, id) == CHOOSE n \in 1..Len(list) : list[n].id = id

\* C19 as stated: right after createEvent(day, title, time = ""), that is
\* while the create is in flight, the events of the day hold the new event.
C19_AsStated ==
    \A k \in 1..Len(inflight) :
        inflight[k].time = EmptyStr =>
            \E n \in 1..Len(sortedEvents(toDate(inflight[k].start))) :
                LET e == sortedEvents(toDate(inflight[k].start))[n]
                IN  /\ e.title = inflight[k].title
                    /\ e.time = inflight[k].time
                    /\ e.start = toDate(inflight[k].start)

\* C19 as amended: once the snapshot holding an event created without a
\* time has been delivered, the events of its day hold it, ordered before
\* every same-day event without a time that was created before it.
C19_CreatedSortsFirst ==
    \A k \in 1..Len(events) :
        (CreatedHere(events[k]) /\ events[k].time = EmptyStr) =>
            LET list == sortedEvents(events[k].start)
            IN  /\ \E n \in 1..Len(list) : list[n] = events[k]
                /\ \A j \in 1..Len(events) :
                      (/\ isSameDay(events[j].start, events[k].start)
                       /\ events[j].time = EmptyStr
                       /\ events[j].id < events[k].id) =>
                          PositionOf(list, events[k].id)
                              < PositionOf(list, events[j].id)

\* C19 witness: today's list led by the event just created without a time,
\* the older event without a time behind it.
C19_Witness ==
    LET list == sortedEvents(today)
    IN  /\ Len(list) = 4
        /\ CreatedHere(list[1])
        /\ list[1].time = EmptyStr
        /\ list[2].time = EmptyStr
        /\ ~CreatedHere(list[2])

\* C21: once the effects of the first commit have run, local storage holds
\* the value of data-theme, whatever header and sidebar toggles were
\* handled; and the flag of App, and of KanbanBoard, is that value whenever
\* its observer has no callback due.
C21_ThemeConsistent ==
    mounted =>
        /\ lsTheme = attrTheme
        /\ (~headerEffectPending /\ "App" \notin observersPending) =>
              appTheme = attrTheme
        /\ (~headerEffectPending /\ "KanbanBoard" \notin observersPending) =>
              boardTheme = attrTheme

\* C21 witness: a header toggle, then a sidebar toggle, both handled;
\* Header's own flag is no longer the attribute's value.
C21_Witness ==
    /\ ThemeIdle
    /\ toggles = <<"header", "sidebar">>
    /\ headerTheme # attrTheme
    /\ lsTheme = attrTheme
    /\ appTheme = attrTheme
    /\ boardTheme = attrTheme

====
